---- MODULE Spec2Model ----
(***************************************************************************)
(* Multi-campus stock tracker: the Campus / Stock / StockHistory /         *)
(* StockTransfer tables and the request handlers of app/routes/stock.py,   *)
(* app/routes/excel.py and app/routes/auth.py that change them.            *)
(*                                                                         *)
(* The database is SQLite (app/__init__.py:23).  An INTEGER PRIMARY KEY    *)
(* column without AUTOINCREMENT gets max(id)+1 on insert, so an id of a    *)
(* deleted last row is handed out again.  StockHistory and StockTransfer   *)
(* rows are never deleted, so their id is their position in the sequence.  *)
(*                                                                         *)
(* Python None of an optional integer form field is the empty tuple <<>>,  *)
(* a present value x is <<x>>.  None of a string column is the string      *)
(* "None".  Prices are whole numbers of the currency unit; Python keeps    *)
(* them as floats, which matters only where a price is turned into text.   *)
(***************************************************************************)
EXTENDS Integers, Sequences, FiniteSets, TLC

VARIABLES
    users,      \* users table: username -> role
    campuses,   \* campuses table: id -> [name, code]
    stocks,     \* stocks table: id -> Stock row
    history,    \* stock_history table, in insertion order
    transfers,  \* stock_transfers table, in insertion order
    pc,         \* position of the stepwise transfer_stock request
    sess,       \* the uncommitted SQLAlchemy session of that request
    last,       \* the last request handled and how it ended
    prev,       \* the tables as that request found them
    requests    \* how many requests were handled so far

vars == <<users, campuses, stocks, history, transfers, pc, sess, last, prev, requests>>

(* ------------------------------ bounds ------------------------------- *)

MaxCampuses == 2
MaxStocks == 3
MaxQty == 2
MaxRows == 2
MaxRequests == 5

(* ------------------------- python / sql helpers ---------------------- *)

None == "None"

NoInt == <<>>
Some(x) == <<x>>
IsNone(o) == o = <<>>
Val(o) == o[1]

\* sqlite rowid allocation for an INTEGER PRIMARY KEY: max(id) + 1
NewId(table) ==
    IF DOMAIN table = {} THEN 1
    ELSE (CHOOSE m \in DOMAIN table : \A k \in DOMAIN table : k <= m) + 1

Insert(table, id, row) == [k \in DOMAIN table \cup {id} |-> IF k = id THEN row ELSE table[k]]

Remove(table, ids) == [k \in DOMAIN table \ ids |-> table[k]]

\* str(x) of a python int
StrInt(n) == ToString(n)

\* str(x) of a python float holding a whole number: str(5.0) = "5.0"
StrFloat(n) == ToString(n) \o ".0"

\* str.upper() on the campus codes of the model
Upper(s) == IF s = "hq" THEN "HQ" ELSE s

\* (x or 0) on a number
OrZero(x) == IF x = 0 THEN 0 ELSE x

(* ------------------------------ inputs -------------------------------- *)

Usernames == {"admin", "staff"}
Roles == {"admin", "staff"}
CampusNames == {"Main", "Lab"}
CampusCodes == {"hq", "HQ", "LAB"}
ItemNames == {"Laptop", "Mouse"}
FormCategories == {"", "Laptop"}
FormConditions == {"Good", "Damaged"}
FormPrices == {NoInt, Some(5)}
FormThresholds == {NoInt, Some(1)}
FormUnits == {"pcs"}

CampusIds == 1..MaxCampuses
StockIds == 1..MaxStocks

(* ------------------------------ requests ------------------------------ *)

\* What the last request was and how it ended.  result is "ok" (committed),
\* "denied" (not an admin), "invalid" (form validation failed), "not_found",
\* "duplicate", "insufficient" or "error" (an exception: rolled back).
Request(op, result, actor, campus_id, stock_id, to_campus_id, qty) ==
    [op |-> op, result |-> result, actor |-> actor, campus_id |-> campus_id,
     stock_id |-> stock_id, to_campus_id |-> to_campus_id, qty |-> qty]

NoRequest == Request("none", "ok", "admin", 0, 0, 0, 0)

\* the committed tables
Tables ==
    [users |-> users, campuses |-> campuses, stocks |-> stocks, history |-> history,
     transfers |-> transfers]

\* a request is received by an application that started: the model follows
\* MaxRequests of them
Received ==
    /\ pc = "idle"
    /\ requests < MaxRequests
    /\ requests' = requests + 1
    /\ prev' = Tables

\* is_admin of a method that lets everyone through
is_admin_Anyone(u) == TRUE

\* app/models.py User.is_admin
is_admin(u) == users[u] = "admin"

\* no request in flight: nothing pending in the session
NoSession == [stocks |-> <<>>, history |-> <<>>, transfers |-> <<>>, pending |-> <<>>,
              dest |-> 0, req |-> NoRequest]

\* the outcomes of `from app.forms import UploadExcelForm, UploadEmployeesForm`
\* (excel.py line 11, run by line 40 of create_app): src/app/forms.py lacks
\* UploadEmployeesForm and the import raises (FALSE); an app.forms that
\* provides the class lets it pass (TRUE, see UploadEmployeesFormValid)
ImportOutcomes == {FALSE, TRUE}

\* create_app on an empty database. Where the import of the blueprints
\* raises, db.create_all() and _seed_default_admin are never reached: there
\* is no admin, no table has a row and the application is down, serving no
\* request. Otherwise the tables are created empty and the admin is seeded.
create_app(imported) ==
    /\ users = IF imported THEN [u \in {"admin"} |-> "admin"] ELSE <<>>
    /\ campuses = <<>>
    /\ stocks = <<>>
    /\ history = <<>>
    /\ transfers = <<>>
    /\ pc = IF imported THEN "idle" ELSE "down"
    /\ sess = NoSession
    /\ last = NoRequest
    /\ prev = Tables
    /\ requests = 0

Init == \E imported \in ImportOutcomes : create_app(imported)

(* --------------------------- auth.register ---------------------------- *)

register(actor, username, role) ==
    /\ Received
    /\ IF ~is_admin(actor)
       THEN /\ last' = [username |-> username] @@ Request("register", "denied", actor, 0, 0, 0, 0)
            /\ UNCHANGED users
       ELSE IF username \in DOMAIN users
       THEN /\ last' = [username |-> username] @@ Request("register", "duplicate", actor, 0, 0, 0, 0)
            /\ UNCHANGED users
       ELSE /\ users' = [u \in DOMAIN users \cup {username} |->
                            IF u = username THEN role ELSE users[u]]
            /\ last' = [username |-> username] @@ Request("register", "ok", actor, 0, 0, 0, 0)
    /\ UNCHANGED <<campuses, stocks, history, transfers, pc, sess>>

(* ----------------------------- campus CRUD ---------------------------- *)

CampusWithCode(code) == {c \in DOMAIN campuses : campuses[c].code = code}

\* the UNIQUE constraints of campuses.name and campuses.code, checked by
\* sqlite when the row is written: a violation raises IntegrityError
CampusUniqueOk(table) ==
    \A c, d \in DOMAIN table :
        c # d => table[c].name # table[d].name /\ table[c].code # table[d].code

add_campus(actor, name, code) ==
    /\ Received
    /\ NewId(campuses) <= MaxCampuses
    /\ IF ~is_admin(actor)
       THEN /\ last' = [code |-> code] @@ Request("add_campus", "denied", actor, 0, 0, 0, 0)
            /\ UNCHANGED campuses
       ELSE IF CampusWithCode(code) # {}
       THEN /\ last' = [code |-> code] @@ Request("add_campus", "duplicate", actor, 0, 0, 0, 0)
            /\ UNCHANGED campuses
       ELSE LET id == NewId(campuses)
                new == Insert(campuses, id, [name |-> name, code |-> Upper(code)])
            IN  IF CampusUniqueOk(new)
                THEN /\ campuses' = new
                     /\ last' = [code |-> code] @@ Request("add_campus", "ok", actor, id, 0, 0, 0)
                ELSE /\ last' = [code |-> code] @@ Request("add_campus", "error", actor, 0, 0, 0, 0)
                     /\ UNCHANGED campuses
    /\ UNCHANGED <<users, stocks, history, transfers, pc, sess>>

edit_campus(actor, campus_id, name, code) ==
    /\ Received
    /\ IF ~is_admin(actor)
       THEN /\ last' = [code |-> code] @@ Request("edit_campus", "denied", actor, campus_id, 0, 0, 0)
            /\ UNCHANGED campuses
       ELSE /\ campus_id \in DOMAIN campuses
            /\ LET new == [campuses EXCEPT ![campus_id] = [name |-> name, code |-> Upper(code)]]
               IN  IF CampusUniqueOk(new)
                   THEN /\ campuses' = new
                        /\ last' = [code |-> code] @@ Request("edit_campus", "ok", actor, campus_id, 0, 0, 0)
                   ELSE /\ last' = [code |-> code] @@ Request("edit_campus", "error", actor, campus_id, 0, 0, 0)
                        /\ UNCHANGED campuses
    /\ UNCHANGED <<users, stocks, history, transfers, pc, sess>>

\* CascadeStocks of a relationship that declares no cascade
CascadeStocks_None(campus_id) == {}

\* Campus.stocks, cascade='all, delete-orphan': the rows session.delete(campus)
\* deletes with the campus
CascadeStocks(campus_id) == {s \in DOMAIN stocks : stocks[s].campus_id = campus_id}

delete_campus(actor, campus_id) ==
    /\ Received
    /\ IF ~is_admin(actor)
       THEN /\ last' = Request("delete_campus", "denied", actor, campus_id, 0, 0, 0)
            /\ UNCHANGED <<campuses, stocks>>
       ELSE /\ campus_id \in DOMAIN campuses
            /\ campuses' = Remove(campuses, {campus_id})
            /\ stocks' = Remove(stocks, CascadeStocks(campus_id))
            /\ last' = Request("delete_campus", "ok", actor, campus_id, 0, 0, 0)
    /\ UNCHANGED <<users, history, transfers, pc, sess>>

(* ------------------------------ audit log ----------------------------- *)

\* Stock.low_stock_threshold default, and the fallback of add_stock/edit_stock
DefaultThreshold == 10

\* stock.campus.name if stock.campus else None
CampusNameOf(stock, camps) ==
    IF stock.campus_id \in DOMAIN camps THEN camps[stock.campus_id].name ELSE None

\* log_stock_action called once the row is gone: stock is None
log_stock_action_NoStock(stock_id, stock, camps, action, changed_by, field_changed, old_value, new_value) ==
    [stock_id |-> stock_id,
     item_name |-> "N/A",
     campus_name |-> None,
     action |-> action,
     field_changed |-> field_changed,
     old_value |-> old_value,
     new_value |-> new_value,
     changed_by |-> changed_by]

\* log_stock_action: the StockHistory row it adds to the session.  old_value
\* and new_value arrive as the text str() makes of them, or None.
log_stock_action(stock_id, stock, camps, action, changed_by, field_changed, old_value, new_value) ==
    [stock_id |-> stock_id,
     item_name |-> stock.item_name,
     campus_name |-> CampusNameOf(stock, camps),
     action |-> action,
     field_changed |-> field_changed,
     old_value |-> old_value,
     new_value |-> new_value,
     changed_by |-> changed_by]

(* ------------------------------ stock CRUD ---------------------------- *)

\* the StockForm submissions with fields drawn from the given sets
StockFormsOf(items, categories, prices, conditions, thresholds) ==
    [item_name : items, category : categories, quantity : 0..MaxQty,
     unit : FormUnits, unit_price : prices, condition : conditions,
     low_stock_threshold : thresholds, campus_id : CampusIds]

StockForms == StockFormsOf(ItemNames, FormCategories, FormPrices, FormConditions, FormThresholds)

\* validators=[Optional(), NumberRange(min=n)]
OptionalAtLeast(o, n) == IF IsNone(o) THEN TRUE ELSE Val(o) >= n

\* the validators of the StockForm fields the handlers read: quantity is
\* DataRequired (a 0 is refused as missing) and NumberRange(min=0); campus_id
\* must be one of the choices
StockFieldsValid(form) ==
    /\ form.item_name # ""
    /\ form.quantity # 0 /\ form.quantity >= 0
    /\ OptionalAtLeast(form.unit_price, 0)
    /\ OptionalAtLeast(form.low_stock_threshold, 0)
    /\ form.campus_id \in DOMAIN campuses

\* StockForm.assigned_to.choices: the SelectField is declared without choices
\* (forms.py 69) and add_stock and edit_stock assign choices to campus_id only
AssignedToChoices == None

\* form.validate_on_submit() of a StockForm: "raised", "valid" or "invalid".
\* SelectField.pre_validate raises TypeError("Choices cannot be None.") for a
\* field whose choices are None, whatever was submitted; the exception leaves
\* the handler
StockFormValid(form) ==
    IF AssignedToChoices = None THEN "raised"
    ELSE IF StockFieldsValid(form) THEN "valid" ELSE "invalid"

\* form.unit_price.data or 0.0
FormPrice(form) == IF IsNone(form.unit_price) THEN 0 ELSE OrZero(Val(form.unit_price))

\* form.quantity.data or 0
FormQuantity(form) == OrZero(form.quantity)

FormThreshold(form) ==
    IF IsNone(form.low_stock_threshold) THEN DefaultThreshold ELSE Val(form.low_stock_threshold)

\* the Stock(...) row add_stock builds
StockOfForm(form) ==
    [item_name |-> form.item_name,
     category |-> form.category,
     quantity |-> FormQuantity(form),
     unit |-> form.unit,
     unit_price |-> FormPrice(form),
     total_value |-> FormQuantity(form) * FormPrice(form),
     condition |-> form.condition,
     low_stock_threshold |-> FormThreshold(form),
     campus_id |-> form.campus_id,
     asset_tag |-> None]

\* the request ends in the exception of validate_on_submit (line 234), with
\* nothing added to the session, or goes through lines 235-254
add_stock(actor, form) ==
    /\ Received
    /\ IF StockFormValid(form) = "raised"
       THEN /\ last' = [form |-> form] @@ Request("add_stock", "error", actor, 0, 0, 0, 0)
            /\ UNCHANGED <<stocks, history>>
       ELSE /\ StockFormValid(form) = "valid"
            /\ LET id == NewId(stocks)
                   stock == StockOfForm(form)
               IN  /\ id <= MaxStocks
                   /\ stocks' = Insert(stocks, id, stock)
                   /\ history' = Append(history,
                          log_stock_action(id, stock, campuses, "created", actor, None, None, None))
                   /\ last' = [form |-> form]
                               @@ Request("add_stock", "ok", actor, form.campus_id, id, 0, form.quantity)
    /\ UNCHANGED <<users, campuses, transfers, pc, sess>>

\* the rows of edit_stock's changes list, in the order the code appends them
EditChanges(stock, form) ==
    LET campus_text(c) == IF c \in DOMAIN campuses THEN campuses[c].name ELSE StrInt(c)
    IN  (IF stock.item_name # form.item_name
         THEN <<<<"item_name", stock.item_name, form.item_name>>>> ELSE <<>>)
     \o (IF stock.category # form.category
         THEN <<<<"category", stock.category, form.category>>>> ELSE <<>>)
     \o (IF stock.quantity # FormQuantity(form)
         THEN <<<<"quantity", StrInt(stock.quantity), StrInt(FormQuantity(form))>>>> ELSE <<>>)
     \o (IF stock.unit_price # FormPrice(form)
         THEN <<<<"unit_price", StrFloat(stock.unit_price), StrFloat(FormPrice(form))>>>> ELSE <<>>)
     \o (IF stock.condition # form.condition
         THEN <<<<"condition", stock.condition, form.condition>>>> ELSE <<>>)
     \o (IF stock.campus_id # form.campus_id
         THEN <<<<"campus", campus_text(stock.campus_id), campus_text(form.campus_id)>>>> ELSE <<>>)

\* the row after edit_stock's assignments; asset_tag is not touched
StockEdited(stock, form) ==
    [StockOfForm(form) EXCEPT !.asset_tag = stock.asset_tag]

\* lines 300-304: one 'updated' entry per change, or one generic entry
EditEntries(stock_id, stock, changes, actor) ==
    IF changes # <<>>
    THEN [i \in 1..Len(changes) |->
            log_stock_action(stock_id, stock, campuses, "updated", actor,
                             changes[i][1], changes[i][2], changes[i][3])]
    ELSE <<log_stock_action(stock_id, stock, campuses, "updated", actor, None, None, None)>>

\* the request ends in the exception of validate_on_submit (line 271), with
\* nothing assigned, or goes through lines 272-307
edit_stock(actor, stock_id, form) ==
    /\ Received
    /\ stock_id \in DOMAIN stocks
    /\ IF StockFormValid(form) = "raised"
       THEN /\ last' = [form |-> form] @@ Request("edit_stock", "error", actor, 0, stock_id, 0, 0)
            /\ UNCHANGED <<stocks, history>>
       ELSE /\ StockFormValid(form) = "valid"
            /\ LET changes == EditChanges(stocks[stock_id], form)
                   stock == StockEdited(stocks[stock_id], form)
               IN  /\ stocks' = [stocks EXCEPT ![stock_id] = stock]
                   /\ history' = history \o EditEntries(stock_id, stock, changes, actor)
                   /\ last' = [form |-> form]
                               @@ Request("edit_stock", "ok", actor, form.campus_id, stock_id, 0,
                                          form.quantity)
    /\ UNCHANGED <<users, campuses, transfers, pc, sess>>

\* HistoryAfterDelete with the stock's earlier entries deleted along with it
HistoryAfterDelete_Cascade(stock_id, actor) ==
    Append(SelectSeq(history, LAMBDA e : e.stock_id # stock_id),
           log_stock_action(stock_id, stocks[stock_id], campuses, "deleted", actor,
                            None, None, None))

\* HistoryAfterDelete of a handler that does not call log_stock_action
HistoryAfterDelete_Unlogged(stock_id, actor) == history

\* lines 319-321: the 'deleted' entry is added while the row is still there;
\* stock_history has no foreign key to stocks, its rows stay
HistoryAfterDelete(stock_id, actor) ==
    Append(history,
           log_stock_action(stock_id, stocks[stock_id], campuses, "deleted", actor,
                            None, None, None))

delete_stock(actor, stock_id) ==
    /\ Received
    /\ stock_id \in DOMAIN stocks
    /\ history' = HistoryAfterDelete(stock_id, actor)
    /\ stocks' = Remove(stocks, {stock_id})
    /\ last' = Request("delete_stock", "ok", actor, stocks[stock_id].campus_id, stock_id, 0, 0)
    /\ UNCHANGED <<users, campuses, transfers, pc, sess>>

(* --------------------------- transfer_stock --------------------------- *)

\* TransferFormValid without the validators of quantity
TransferFormValid_AnyQuantity(campus_id, stock_id, to_campus_id, qty) ==
    /\ stock_id \in DOMAIN stocks
    /\ stocks[stock_id].campus_id = campus_id
    /\ to_campus_id \in DOMAIN campuses \ {campus_id}

\* TransferFormValid of to_campus_id choices that list every campus
TransferFormValid_AnyDestination(campus_id, stock_id, to_campus_id, qty) ==
    /\ stock_id \in DOMAIN stocks
    /\ stocks[stock_id].campus_id = campus_id
    /\ to_campus_id \in DOMAIN campuses
    /\ qty >= 1

\* the choices of StockTransferForm and its validators: the stock is one of
\* the campus's, the destination is another campus, quantity is >= 1
TransferFormValid(campus_id, stock_id, to_campus_id, qty) ==
    /\ stock_id \in DOMAIN stocks
    /\ stocks[stock_id].campus_id = campus_id
    /\ to_campus_id \in DOMAIN campuses \ {campus_id}
    /\ qty >= 1

\* the field form.validate_on_submit refuses
TransferFormError(campus_id, stock_id, to_campus_id, qty) ==
    IF stock_id \notin DOMAIN stocks THEN "invalid_stock"
    ELSE IF stocks[stock_id].campus_id # campus_id THEN "invalid_stock"
    ELSE IF to_campus_id \notin DOMAIN campuses \ {campus_id} THEN "invalid_campus"
    ELSE "invalid_quantity"

\* TransferResult without the test of qty against the stock's quantity
TransferResult_NoQuantityTest(campus_id, stock_id, to_campus_id, qty) ==
    IF campus_id \notin DOMAIN campuses THEN "not_found"
    ELSE IF ~TransferFormValid(campus_id, stock_id, to_campus_id, qty)
         THEN TransferFormError(campus_id, stock_id, to_campus_id, qty)
    ELSE "ok"

\* how the handler answers a request: the order of its tests
TransferResult(campus_id, stock_id, to_campus_id, qty) ==
    IF campus_id \notin DOMAIN campuses THEN "not_found"
    ELSE IF ~TransferFormValid(campus_id, stock_id, to_campus_id, qty)
         THEN TransferFormError(campus_id, stock_id, to_campus_id, qty)
    ELSE IF stock_id \notin DOMAIN stocks \/ stocks[stock_id].campus_id # campus_id
         THEN "invalid_stock"
    ELSE IF to_campus_id \notin DOMAIN campuses THEN "invalid_campus"
    ELSE IF qty > stocks[stock_id].quantity THEN "insufficient"
    ELSE "ok"

\* TransferSource with the decrement left out
TransferSource_NoDecrement(src, qty) ==
    [src EXCEPT !.total_value = src.quantity * OrZero(src.unit_price)]

\* stock.quantity -= qty; stock.total_value = stock.quantity * (stock.unit_price or 0)
TransferSource(src, qty) ==
    [src EXCEPT !.quantity = src.quantity - qty,
                !.total_value = (src.quantity - qty) * OrZero(src.unit_price)]

\* Stock.query.filter_by(item_name=, campus_id=, category=)
DestMatches(table, item_name, campus_id, category) ==
    {d \in DOMAIN table : /\ table[d].item_name = item_name
                          /\ table[d].campus_id = campus_id
                          /\ table[d].category = category}

\* .first() of a query with no ORDER BY: the rows it may return.  The order
\* of the rows is the database's choice, so each row of the result may be
\* the first
FirstOf(ids) == ids

\* MergeDest of "dest_stock.quantity = qty"
MergeDest_Overwrites(dest, qty) ==
    [dest EXCEPT !.quantity = qty,
                 !.total_value = qty * OrZero(dest.unit_price)]

\* MergeDest with total_value left as it was
MergeDest_StaleValue(dest, qty) ==
    [dest EXCEPT !.quantity = dest.quantity + qty]

\* dest_stock.quantity += qty; dest_stock.total_value = ...
MergeDest(dest, qty) ==
    [dest EXCEPT !.quantity = dest.quantity + qty,
                 !.total_value = (dest.quantity + qty) * OrZero(dest.unit_price)]

\* NewDest of a Stock(...) built with quantity=stock.quantity, what the source has left
NewDest_SourceQuantity(src, to_campus_id, qty) ==
    [item_name |-> src.item_name,
     category |-> src.category,
     quantity |-> src.quantity,
     unit |-> src.unit,
     unit_price |-> src.unit_price,
     total_value |-> src.quantity * OrZero(src.unit_price),
     condition |-> src.condition,
     low_stock_threshold |-> src.low_stock_threshold,
     campus_id |-> to_campus_id,
     asset_tag |-> None]

\* NewDest of a Stock(...) that is also given the source's asset_tag
NewDest_CopiesTag(src, to_campus_id, qty) ==
    [item_name |-> src.item_name,
     category |-> src.category,
     quantity |-> qty,
     unit |-> src.unit,
     unit_price |-> src.unit_price,
     total_value |-> qty * OrZero(src.unit_price),
     condition |-> src.condition,
     low_stock_threshold |-> src.low_stock_threshold,
     campus_id |-> to_campus_id,
     asset_tag |-> src.asset_tag]

\* the Stock(...) row built for a destination that has no matching row
NewDest(src, to_campus_id, qty) ==
    [item_name |-> src.item_name,
     category |-> src.category,
     quantity |-> qty,
     unit |-> src.unit,
     unit_price |-> src.unit_price,
     total_value |-> qty * OrZero(src.unit_price),
     condition |-> src.condition,
     low_stock_threshold |-> src.low_stock_threshold,
     campus_id |-> to_campus_id,
     asset_tag |-> None]

TransferRow(stock_id, src, campus_id, to_campus_id, qty, actor) ==
    [stock_id |-> stock_id,
     item_name |-> src.item_name,
     quantity_transferred |-> qty,
     from_campus_id |-> campus_id,
     to_campus_id |-> to_campus_id,
     transferred_by |-> actor]

\* lines 378-380: the rows dest_stock may be, 0 for None; the lookup runs
\* after the source is decremented (autoflush)
TransferDests(read, req) ==
    LET src == TransferSource(read, req.qty)
        st1 == [stocks EXCEPT ![req.stock_id] = src]
        matches == DestMatches(st1, src.item_name, req.to_campus_id, src.category)
    IN  IF matches = {} THEN {0} ELSE FirstOf(matches)

\* lines 375-403: the session after the source is decremented, the destination
\* dest merged or a new one built, the StockTransfer row and the
\* transferred_out entry added
TransferBegun(req, dest) ==
    LET src == TransferSource(stocks[req.stock_id], req.qty)
        st1 == [stocks EXCEPT ![req.stock_id] = src]
    IN  [stocks |-> IF dest = 0 THEN st1 ELSE [st1 EXCEPT ![dest] = MergeDest(st1[dest], req.qty)],
         pending |-> IF dest = 0 THEN <<NewDest(src, req.to_campus_id, req.qty)>> ELSE <<>>,
         dest |-> dest,
         transfers |-> Append(transfers,
                         TransferRow(req.stock_id, src, req.campus_id, req.to_campus_id,
                                     req.qty, req.actor)),
         history |-> Append(history,
                         log_stock_action(req.stock_id, src, campuses, "transferred_out", req.actor,
                                          "quantity", StrInt(src.quantity + req.qty),
                                          StrInt(src.quantity))),
         req |-> req]

\* TransferFlushed of a handler that deletes a source left with quantity 0
TransferFlushed_DropsEmptied(s) ==
    LET kept == Remove(s.stocks, {k \in {s.req.stock_id} : s.stocks[k].quantity = 0})
    IN  IF s.pending = <<>> THEN [s EXCEPT !.stocks = kept]
        ELSE [s EXCEPT !.stocks = Insert(kept, NewId(s.stocks), s.pending[1]),
                       !.dest = NewId(s.stocks),
                       !.pending = <<>>]

\* line 404, db.session.flush(): a pending destination row is inserted and gets its id
TransferFlushed(s) ==
    IF s.pending = <<>> THEN s
    ELSE [s EXCEPT !.stocks = Insert(s.stocks, NewId(s.stocks), s.pending[1]),
                   !.dest = NewId(s.stocks),
                   !.pending = <<>>]

\* TransferLoggedIn of a test "if dest_stock.id" that finds no id
TransferLoggedIn_Skipped(s) == s

\* lines 405-407: if dest_stock.id: log the transferred_in entry
TransferLoggedIn(s) ==
    IF s.dest = 0 THEN s
    ELSE LET dest == s.stocks[s.dest]
         IN  [s EXCEPT !.history = Append(s.history,
                 log_stock_action(s.dest, dest, campuses, "transferred_in", s.req.actor,
                                  "quantity", StrInt(dest.quantity - s.req.qty),
                                  StrInt(dest.quantity)))]

\* what the bounds of the model leave room for
TransferFits(req) ==
    IF 0 \in TransferDests(stocks[req.stock_id], req) THEN NewId(stocks) <= MaxStocks ELSE TRUE

\* a request the handler refuses: nothing is written
transfer_rejected(actor, campus_id, stock_id, to_campus_id, qty) ==
    /\ Received
    /\ TransferResult(campus_id, stock_id, to_campus_id, qty) # "ok"
    /\ last' = IF TransferResult(campus_id, stock_id, to_campus_id, qty) = "insufficient"
               THEN Request("transfer_stock", "insufficient", actor, campus_id, stock_id,
                            to_campus_id, qty)
               ELSE Request("transfer_stock", TransferResult(campus_id, stock_id, to_campus_id, qty),
                            actor, 0, 0, 0, 0)
    /\ UNCHANGED <<users, campuses, stocks, history, transfers, pc, sess>>

\* a request the handler carries out, from its first line to db.session.commit()
transfer_done(actor, campus_id, stock_id, to_campus_id, qty) ==
    LET req == Request("transfer_stock", "ok", actor, campus_id, stock_id, to_campus_id, qty)
    IN  /\ Received
        /\ TransferResult(campus_id, stock_id, to_campus_id, qty) = "ok"
        /\ TransferFits(req)
        /\ \E dest \in TransferDests(stocks[stock_id], req) :
              LET s == TransferLoggedIn(TransferFlushed(TransferBegun(req, dest)))
              IN  /\ stocks' = s.stocks
                  /\ history' = s.history
                  /\ transfers' = s.transfers
        /\ last' = req
        /\ UNCHANGED <<users, campuses, pc, sess>>

transfer_stock(actor, campus_id, stock_id, to_campus_id, qty) ==
    \/ transfer_rejected(actor, campus_id, stock_id, to_campus_id, qty)
    \/ transfer_done(actor, campus_id, stock_id, to_campus_id, qty)

(* ---------------------------- upload_excel ---------------------------- *)

\* A spreadsheet cell as pandas hands it over: empty (NaN), a number, or text.
NaN == [nan |-> TRUE]
Num(n) == [num |-> n]
Text(t) == [text |-> t]
IsNaN(cell) == cell = NaN
IsNum(cell) == DOMAIN cell = {"num"}

\* str(cell).strip()
CellStr(cell) ==
    IF IsNaN(cell) THEN "nan" ELSE IF IsNum(cell) THEN StrInt(cell.num) ELSE cell.text

\* int(cell) / float(cell) of a cell that is not NaN raises ValueError on text
\* that is no number
Parses(cell) == IsNaN(cell) \/ IsNum(cell)

\* int(row.get('quantity', 0)) if pd.notna(row.get('quantity')) else 0
CellNumber(cell) == IF IsNaN(cell) THEN 0 ELSE cell.num

\* asset_tag: None when the cell is empty
CellTag(cell) ==
    IF IsNaN(cell) \/ CellStr(cell) = "" \/ CellStr(cell) = "nan" THEN None ELSE CellStr(cell)

\* the rows a file of the model is made of
AllUploadRows ==
    { [item_name |-> Text("Laptop"), category |-> Text("Laptop"), quantity |-> Num(MaxQty),
       unit_price |-> Num(5), asset_tag |-> NaN, condition |-> NaN],
      [item_name |-> Text("Mouse"), category |-> NaN, quantity |-> Num(0 - 1),
       unit_price |-> Num(5), asset_tag |-> NaN, condition |-> NaN],
      [item_name |-> Text("Laptop"), category |-> NaN, quantity |-> Num(MaxQty),
       unit_price |-> NaN, asset_tag |-> Text("IT-1"), condition |-> NaN],
      [item_name |-> Text("Mouse"), category |-> NaN, quantity |-> Text("abc"),
       unit_price |-> Num(5), asset_tag |-> NaN, condition |-> NaN],
      [item_name |-> NaN, category |-> NaN, quantity |-> Num(1),
       unit_price |-> Num(5), asset_tag |-> NaN, condition |-> NaN],
      [item_name |-> Text("Mouse"), category |-> Text("Mouse"), quantity |-> Num(1),
       unit_price |-> Num(5), asset_tag |-> Text("IT-1"), condition |-> NaN] }

\* the files of up to MaxRows rows
UploadFilesOf(rows) == UNION {[1..n -> rows] : n \in 1..MaxRows}

\* the Stock(...) row built from a spreadsheet row
StockOfRow(row, campus_id) ==
    [item_name |-> CellStr(row.item_name),
     category |-> IF IsNaN(row.category) THEN "" ELSE CellStr(row.category),
     quantity |-> CellNumber(row.quantity),
     unit |-> "pcs",
     unit_price |-> CellNumber(row.unit_price),
     total_value |-> CellNumber(row.quantity) * CellNumber(row.unit_price),
     condition |-> IF IsNaN(row.condition) THEN "Good" ELSE CellStr(row.condition),
     low_stock_threshold |-> DefaultThreshold,
     campus_id |-> campus_id,
     asset_tag |-> CellTag(row.asset_tag)]

\* RowResult without the lookup of the asset_tag
RowResult_NoTagLookup(row, table) ==
    IF CellStr(row.item_name) = "" \/ CellStr(row.item_name) = "nan" THEN "missing"
    ELSE IF ~Parses(row.quantity) \/ ~Parses(row.unit_price) THEN "error"
    ELSE "imported"

\* one pass of the for loop over df.iterrows(): "missing", "error" (the
\* per-row except), "duplicate" or "imported"
RowResult(row, table) ==
    IF CellStr(row.item_name) = "" \/ CellStr(row.item_name) = "nan" THEN "missing"
    ELSE IF ~Parses(row.quantity) \/ ~Parses(row.unit_price) THEN "error"
    ELSE IF /\ CellTag(row.asset_tag) # None
            /\ \E k \in DOMAIN table : table[k].asset_tag = CellTag(row.asset_tag)
         THEN "duplicate"
    ELSE "imported"

\* ImportRows of a loop that ends at the first row it cannot import
RECURSIVE ImportRows_AbortOnError(_, _, _, _)
ImportRows_AbortOnError(file, i, campus_id, table) ==
    IF i > Len(file) THEN table
    ELSE IF RowResult(file[i], table) = "imported"
         THEN ImportRows_AbortOnError(file, i + 1, campus_id,
                                      Insert(table, NewId(table), StockOfRow(file[i], campus_id)))
         ELSE table

\* the stocks table after rows i.. of the file went through the loop
RECURSIVE ImportRows(_, _, _, _)
ImportRows(file, i, campus_id, table) ==
    IF i > Len(file) THEN table
    ELSE IF RowResult(file[i], table) = "imported"
         THEN ImportRows(file, i + 1, campus_id,
                         Insert(table, NewId(table), StockOfRow(file[i], campus_id)))
         ELSE ImportRows(file, i + 1, campus_id, table)

\* the errors list after rows i.. of the file went through the loop: the
\* row_num (idx + 2) of each row that was not imported, and why
RECURSIVE ImportErrors(_, _, _, _)
ImportErrors(file, i, campus_id, table) ==
    IF i > Len(file) THEN <<>>
    ELSE IF RowResult(file[i], table) = "imported"
         THEN ImportErrors(file, i + 1, campus_id,
                           Insert(table, NewId(table), StockOfRow(file[i], campus_id)))
         ELSE <<[row_num |-> i + 1, error |-> RowResult(file[i], table)]>>
              \o ImportErrors(file, i + 1, campus_id, table)

\* a file pd.read_excel raises on (line 41): it holds no workbook
NoWorkbook == <<[workbook |-> FALSE]>>

\* UploadOutcome of a handler that flashes its success message whatever happened
UploadOutcome_Silent(file) == "ok"

\* what the handler flashes: the success message of line 105, or the
\* 'Error reading Excel file' of the outer except (lines 109-110)
UploadOutcome(file) == IF file = NoWorkbook THEN "error" ELSE "ok"

upload_excel(actor, campus_id, file) ==
    /\ Received
    /\ campus_id \in DOMAIN campuses
    /\ IF file = NoWorkbook
       THEN /\ stocks' = stocks
            /\ last' = [file |-> file, errors |-> <<>>]
                        @@ Request("upload_excel", UploadOutcome(file), actor, campus_id, 0, 0, 0)
       ELSE LET new == ImportRows(file, 1, campus_id, stocks)
            IN  /\ \A k \in DOMAIN new : k <= MaxStocks
                /\ stocks' = new
                /\ last' = [file |-> file, errors |-> ImportErrors(file, 1, campus_id, stocks)]
                            @@ Request("upload_excel", UploadOutcome(file), actor, campus_id, 0, 0,
                                       Cardinality(DOMAIN new) - Cardinality(DOMAIN stocks))
    /\ UNCHANGED <<users, campuses, history, transfers, pc, sess>>

(* -------------------------- upload_employees -------------------------- *)

\* str.lower() on the usernames of the model
Lower(s) == IF s = "Admin" THEN "admin" ELSE s

\* the rows an employee file of the model is made of: username and role cells
EmployeeRows ==
    { [username |-> Text("staff"), role |-> NaN],
      [username |-> Text("Admin"), role |-> Text("admin")],
      [username |-> NaN, role |-> NaN] }

\* role: 'staff' unless the cell says admin or staff
RoleOfRow(row) ==
    IF IsNaN(row.role) THEN "staff"
    ELSE IF Lower(CellStr(row.role)) \in {"admin", "staff"} THEN Lower(CellStr(row.role))
    ELSE "staff"

\* one pass of the loop: "missing", "exists" or "imported"
EmployeeResult(row, table) ==
    IF CellStr(row.username) = "" \/ CellStr(row.username) = "nan" THEN "missing"
    ELSE IF \E u \in DOMAIN table : Lower(u) = Lower(CellStr(row.username)) THEN "exists"
    ELSE "imported"

\* the users table after rows i.. of the file went through the loop
RECURSIVE ImportEmployees(_, _, _)
ImportEmployees(file, i, table) ==
    IF i > Len(file) THEN table
    ELSE IF EmployeeResult(file[i], table) = "imported"
         THEN ImportEmployees(file, i + 1,
                              [u \in DOMAIN table \cup {CellStr(file[i].username)} |->
                                  IF u \in DOMAIN table THEN table[u] ELSE RoleOfRow(file[i])])
         ELSE ImportEmployees(file, i + 1, table)

\* app.forms.UploadEmployeesForm, the class excel.py imports (line 11) and
\* builds (line 388); src/app/forms.py does not define it.  It is taken to be
\* what UploadExcelForm is without the campus: a form with a required file.
UploadEmployeesFormValid(file) == file \in Seq(EmployeeRows)

upload_employees(actor, file) ==
    /\ Received
    /\ IF ~is_admin(actor)
       THEN /\ last' = Request("upload_employees", "denied", actor, 0, 0, 0, 0)
            /\ UNCHANGED users
       ELSE LET new == ImportEmployees(file, 1, users)
            IN  /\ UploadEmployeesFormValid(file)
                /\ users' = new
                /\ last' = Request("upload_employees", "ok", actor, 0, 0, 0,
                                   Cardinality(DOMAIN new) - Cardinality(DOMAIN users))
    /\ UNCHANGED <<campuses, stocks, history, transfers, pc, sess>>

(* ---------------------------- specification --------------------------- *)

\* The requests of Spec: stock forms that differ in item, quantity, price and
\* campus, campus forms with distinct names and codes, files of up to MaxRows rows.
SpecStockForms == StockFormsOf({"Laptop"}, {"Laptop"}, {Some(5)}, {"Good"}, {NoInt})
SpecCampusForms == {<<"Main", "hq">>, <<"Lab", "LAB">>}
SpecUploadRows ==
    {r \in AllUploadRows :
        /\ RowResult(r, <<>>) = "imported"
        /\ IF IsNaN(r.category) THEN TRUE ELSE IsNaN(r.asset_tag)}

Actors == DOMAIN users

AddCampus == \E actor \in Actors, f \in SpecCampusForms : add_campus(actor, f[1], f[2])

EditCampus ==
    \E actor \in Actors, id \in CampusIds, f \in SpecCampusForms :
        edit_campus(actor, id, f[1], f[2])

DeleteCampus == \E actor \in Actors, id \in CampusIds : delete_campus(actor, id)

AddStock == \E actor \in Actors, form \in SpecStockForms : add_stock(actor, form)

EditStock ==
    \E actor \in Actors, id \in StockIds, form \in SpecStockForms : edit_stock(actor, id, form)

DeleteStock == \E actor \in Actors, id \in StockIds : delete_stock(actor, id)

\* the quantities a transfer form is sent with: negative, zero and positive
TransferQuantities == (0 - 1)..MaxQty

TransferRejected ==
    \E actor \in Actors, c \in CampusIds, id \in StockIds, to \in CampusIds, qty \in TransferQuantities :
        transfer_rejected(actor, c, id, to, qty)

TransferDone ==
    \E actor \in Actors, c \in CampusIds, id \in StockIds, to \in CampusIds, qty \in TransferQuantities :
        transfer_done(actor, c, id, to, qty)

UploadExcel ==
    \E actor \in Actors, c \in CampusIds, file \in UploadFilesOf(SpecUploadRows) :
        upload_excel(actor, c, file)

\* sheets of untagged, priced rows of one item
PricedUploadRows ==
    {r \in SpecUploadRows : IsNaN(r.asset_tag) /\ CellNumber(r.unit_price) > 0 /\ CellNumber(r.quantity) > 0}

UploadPriced ==
    \E actor \in Actors, c \in CampusIds, file \in UploadFilesOf(PricedUploadRows) :
        upload_excel(actor, c, file)

Next ==
    \/ AddCampus
    \/ EditCampus
    \/ DeleteCampus
    \/ AddStock
    \/ EditStock
    \/ DeleteStock
    \/ TransferRejected
    \/ TransferDone
    \/ UploadExcel

Spec == Init /\ [][Next]_vars

(* ------------------------- imports of any file ----------------------- *)

UploadAnyExcel ==
    \E actor \in Actors, c \in CampusIds, file \in UploadFilesOf(AllUploadRows) \cup {NoWorkbook} :
        upload_excel(actor, c, file)

UploadNext ==
    \/ AddCampus
    \/ DeleteStock
    \/ UploadAnyExcel

SpecUpload == Init /\ [][UploadNext]_vars

(* ------------------- requests of admins and of staff ------------------ *)

AdminCampusForms == CampusNames \X CampusCodes

Register ==
    \E actor \in Actors, username \in Usernames, role \in Roles : register(actor, username, role)

AddAnyCampus == \E actor \in Actors, f \in AdminCampusForms : add_campus(actor, f[1], f[2])

EditAnyCampus ==
    \E actor \in Actors, id \in CampusIds, f \in AdminCampusForms :
        edit_campus(actor, id, f[1], f[2])

UploadEmployees ==
    \E actor \in Actors, file \in UploadFilesOf(EmployeeRows) : upload_employees(actor, file)

AdminNext ==
    \/ Register
    \/ UploadEmployees
    \/ AddAnyCampus
    \/ EditAnyCampus
    \/ DeleteCampus
    \/ UploadPriced

SpecAdmin == Init /\ [][AdminNext]_vars

(* ------------------ transfer_stock in concurrent requests ------------- *)

\* Each request has its own session and sqlite connection.  pysqlite sends
\* BEGIN before the first UPDATE or INSERT only, so the SELECTs of lines
\* 352-364 hold no lock and another request may commit after them.  From the
\* first write (the autoflush before the destination query, line 378) to the
\* commit the connection holds the database's write lock, so the writes of
\* lines 375-408 reach the database as one step.

\* the requests that may be open at once
MaxSessions == 2

Sessions == 1..MaxSessions

Closed == [state |-> "closed"]

\* the Stock object a session holds for the source row, once loaded, while
\* the row changes in the database: the session does not load it again
SessionSource_Refreshed(read, current) == current

SessionSource(read, current) == read

\* lines 375-403 run on the source row as the session holds it and on the
\* other rows as the database has them at the first write
TransferBegunFrom(read, req, dest) ==
    LET src == TransferSource(read, req.qty)
        st1 == [stocks EXCEPT ![req.stock_id] = src]
    IN  [stocks |-> IF dest = 0 THEN st1 ELSE [st1 EXCEPT ![dest] = MergeDest(st1[dest], req.qty)],
         pending |-> IF dest = 0 THEN <<NewDest(src, req.to_campus_id, req.qty)>> ELSE <<>>,
         dest |-> dest,
         transfers |-> Append(transfers,
                         TransferRow(req.stock_id, src, req.campus_id, req.to_campus_id,
                                     req.qty, req.actor)),
         history |-> Append(history,
                         log_stock_action(req.stock_id, src, campuses, "transferred_out", req.actor,
                                          "quantity", StrInt(src.quantity + req.qty),
                                          StrInt(src.quantity))),
         req |-> req]

\* create_app, then no session open
InitRace ==
    \E imported \in ImportOutcomes :
        /\ users = IF imported THEN [u \in {"admin"} |-> "admin"] ELSE <<>>
        /\ campuses = <<>>
        /\ stocks = <<>>
        /\ history = <<>>
        /\ transfers = <<>>
        /\ pc = IF imported THEN "idle" ELSE "down"
        /\ sess = [r \in Sessions |-> Closed]
        /\ last = NoRequest
        /\ prev = Tables
        /\ requests = 0

\* lines 352-373 in session r: the campus, the form's choices and the stock
\* are read, the form validates and the quantity passes the test of line 372
race_read(r, actor, campus_id, stock_id, to_campus_id, qty) ==
    /\ pc = "idle"
    /\ requests < MaxRequests
    /\ requests' = requests + 1
    /\ sess[r].state = "closed"
    /\ TransferResult(campus_id, stock_id, to_campus_id, qty) = "ok"
    /\ sess' = [sess EXCEPT ![r] =
                   [state |-> "checked",
                    req |-> Request("transfer_stock", "ok", actor, campus_id, stock_id,
                                    to_campus_id, qty),
                    read |-> stocks[stock_id]]]
    /\ UNCHANGED <<users, campuses, stocks, history, transfers, pc, last, prev>>

\* lines 375-408 in session r
race_commit(r) ==
    /\ pc = "idle"
    /\ sess[r].state = "checked"
    /\ LET req == sess[r].req
           read == SessionSource(sess[r].read, stocks[req.stock_id])
       IN  \E dest \in TransferDests(read, req) :
              LET s == TransferLoggedIn(TransferFlushed(TransferBegunFrom(read, req, dest)))
              IN  /\ IF dest = 0 THEN NewId(stocks) <= MaxStocks ELSE TRUE
                  /\ stocks' = s.stocks
                  /\ history' = s.history
                  /\ transfers' = s.transfers
                  /\ last' = [session |-> r, read |-> sess[r].read] @@ req
    /\ prev' = Tables
    /\ sess' = [sess EXCEPT ![r].state = "committed"]
    /\ UNCHANGED <<users, campuses, pc, requests>>

RaceRead ==
    \E r \in Sessions, actor \in Actors, c \in CampusIds, id \in StockIds, to \in CampusIds,
       qty \in TransferQuantities :
        race_read(r, actor, c, id, to, qty)

RaceCommit == \E r \in Sessions : race_commit(r)

RaceNext ==
    \/ AddCampus
    \/ UploadPriced
    \/ RaceRead
    \/ RaceCommit

SpecRace == InitRace /\ [][RaceNext]_vars

(* --------------------------- Stock.is_low_stock ----------------------- *)

\* the stock levels read: up to one above the fallback threshold
MaxLevel == 11

\* the fallback of is_low_stock for a row without a threshold
LowStockFallback == 10

\* is_low_stock with < for <=
is_low_stock_Strict(quantity, low_stock_threshold) ==
    LET threshold == IF ~IsNone(low_stock_threshold) THEN Val(low_stock_threshold)
                     ELSE LowStockFallback
    IN  (IF IsNone(quantity) THEN 0 ELSE OrZero(Val(quantity))) < threshold

\* Stock.is_low_stock of a Stock object whose attributes quantity and
\* low_stock_threshold hold the given optional integers
is_low_stock(quantity, low_stock_threshold) ==
    LET threshold == IF ~IsNone(low_stock_threshold) THEN Val(low_stock_threshold)
                     ELSE LowStockFallback
    IN  (IF IsNone(quantity) THEN 0 ELSE OrZero(Val(quantity))) <= threshold

\* the values of the two columns
Levels == {NoInt} \cup {Some(n) : n \in (0 - 1)..MaxLevel}
Thresholds == {NoInt} \cup {Some(n) : n \in 0..MaxLevel}

\* a row with some quantity and threshold, its property not yet read
InitLow ==
    /\ users = [u \in {"admin"} |-> "admin"]
    /\ campuses = <<>>
    /\ stocks = <<>>
    /\ history = <<>>
    /\ transfers = <<>>
    /\ sess = NoSession
    /\ prev = Tables
    /\ requests = 0
    /\ pc = "row"
    /\ \E q \in Levels, t \in Thresholds :
          last = [op |-> "is_low_stock", quantity |-> q, low_stock_threshold |-> t,
                  result |-> FALSE]

\* stock.is_low_stock is read
read_is_low_stock ==
    /\ pc = "row"
    /\ pc' = "read"
    /\ last' = [last EXCEPT !.result = is_low_stock(last.quantity, last.low_stock_threshold)]
    /\ UNCHANGED <<users, campuses, stocks, history, transfers, sess, prev, requests>>

LowNext == read_is_low_stock

SpecLow == InitLow /\ [][LowNext]_vars

(* ------------------- transfer_stock, statement by statement ----------- *)

\* VisibleAfterFlush if flush() committed the stocks it wrote
VisibleAfterFlush_Autocommit(s) == [Tables EXCEPT !.stocks = s.stocks]

\* What the other connections see of the session's writes before the commit:
\* sqlite shows them nothing, flush() only sends the statements.
VisibleAfterFlush(s) == Tables

\* What the failed request leaves: the exception ends the request and
\* Flask-SQLAlchemy's teardown removes the session, which rolls it back.
RolledBack(s) == Tables

\* What db.session.commit() makes of the tables
Committed(s) ==
    [Tables EXCEPT !.stocks = s.stocks, !.history = s.history, !.transfers = s.transfers]

SetTables(t) ==
    /\ users' = t.users
    /\ campuses' = t.campuses
    /\ stocks' = t.stocks
    /\ history' = t.history
    /\ transfers' = t.transfers

\* lines 363-403
transfer_begin(actor, campus_id, stock_id, to_campus_id, qty) ==
    LET req == Request("transfer_stock", "ok", actor, campus_id, stock_id, to_campus_id, qty)
    IN  /\ Received
        /\ TransferResult(campus_id, stock_id, to_campus_id, qty) = "ok"
        /\ TransferFits(req)
        /\ \E dest \in TransferDests(stocks[stock_id], req) : sess' = TransferBegun(req, dest)
        /\ pc' = "flush"
        /\ last' = [req EXCEPT !.result = "running"]
        /\ UNCHANGED <<users, campuses, stocks, history, transfers>>

\* line 404
transfer_flush ==
    /\ pc = "flush"
    /\ sess' = TransferFlushed(sess)
    /\ SetTables(VisibleAfterFlush(sess'))
    /\ pc' = "log"
    /\ UNCHANGED <<last, prev, requests>>

\* lines 405-407
transfer_log_in ==
    /\ pc = "log"
    /\ sess' = TransferLoggedIn(sess)
    /\ pc' = "commit"
    /\ UNCHANGED <<users, campuses, stocks, history, transfers, last, prev, requests>>

\* line 408
transfer_commit ==
    /\ pc = "commit"
    /\ SetTables(Committed(sess))
    /\ sess' = NoSession
    /\ pc' = "idle"
    /\ last' = sess.req
    /\ UNCHANGED <<prev, requests>>

\* an exception at the statement the request has reached
transfer_fail ==
    /\ pc \in {"flush", "log", "commit"}
    /\ SetTables(RolledBack(sess))
    /\ sess' = NoSession
    /\ pc' = "idle"
    /\ last' = [sess.req EXCEPT !.result = "error"]
    /\ UNCHANGED <<prev, requests>>

TransferBegin ==
    \E actor \in Actors, c \in CampusIds, id \in StockIds, to \in CampusIds, qty \in TransferQuantities :
        transfer_begin(actor, c, id, to, qty)

TxnNext ==
    \/ AddCampus
    \/ AddStock
    \/ UploadPriced
    \/ TransferRejected
    \/ TransferBegin
    \/ transfer_flush
    \/ transfer_log_in
    \/ transfer_commit
    \/ transfer_fail

SpecTxn == Init /\ [][TxnNext]_vars

(* ------------------------------- claims ------------------------------- *)

TransferOk == pc = "idle" /\ last.op = "transfer_stock" /\ last.result = "ok"

Ok(op) == pc = "idle" /\ last.op = op /\ last.result = "ok"

\* the rows of stocks the last request created or changed
TouchedStocks ==
    {k \in DOMAIN stocks : IF k \in DOMAIN prev.stocks THEN stocks[k] # prev.stocks[k] ELSE TRUE}

QuantityBefore(k) == IF k \in DOMAIN prev.stocks THEN prev.stocks[k].quantity ELSE 0

NewHistory == SubSeq(history, Len(prev.history) + 1, Len(history))

\* C1: a successful transfer of qty leaves the source with its quantity minus
\* qty, and exactly one other row, at the destination campus, with its
\* quantity (0 for a row the transfer created) plus qty.
TransferConservesQuantity ==
    TransferOk =>
        LET src == last.stock_id
            dests == {k \in TouchedStocks \ {src} : stocks[k].campus_id = last.to_campus_id}
        IN  /\ src \in DOMAIN stocks
            /\ stocks[src].quantity = prev.stocks[src].quantity - last.qty
            /\ Cardinality(dests) = 1
            /\ \A d \in dests : stocks[d].quantity = QuantityBefore(d) + last.qty

\* a transfer merged into a row the destination campus already had
TransferMergedWitness ==
    /\ TransferOk
    /\ \E d \in DOMAIN prev.stocks \ {last.stock_id} :
          /\ d \in DOMAIN stocks
          /\ stocks[d].campus_id = last.to_campus_id
          /\ stocks[d].quantity = prev.stocks[d].quantity + last.qty

\* C2: a transfer of more than the source holds is refused, and the refusal
\* leaves every table as the request found it; no transfer of more than the
\* source holds is carried out.
TransferOverdrawRejected ==
    /\ (pc = "idle" /\ last.op = "transfer_stock" /\ last.result = "insufficient") =>
          /\ last.qty > prev.stocks[last.stock_id].quantity
          /\ Tables = prev
    /\ TransferOk => last.qty <= prev.stocks[last.stock_id].quantity

\* a transfer was refused for asking more than a stocked row holds
OverdrawWitness ==
    /\ last.op = "transfer_stock"
    /\ last.result = "insufficient"
    /\ last.qty > stocks[last.stock_id].quantity
    /\ stocks[last.stock_id].quantity >= 1

\* C3: every Stock row has total_value = quantity * unit_price.
TotalValueConsistent ==
    \A k \in DOMAIN stocks : stocks[k].total_value = stocks[k].quantity * stocks[k].unit_price

\* a transfer left a priced remainder at the source and a priced destination row
TotalValueWitness ==
    /\ TransferOk
    /\ stocks[last.stock_id].total_value > 0
    /\ \E d \in TouchedStocks \ {last.stock_id} : stocks[d].total_value > 0

\* C4, as claimed: no Stock row has a negative quantity.
QuantityNeverNegative ==
    \A k \in DOMAIN stocks : stocks[k].quantity >= 0

\* C6: a successful add_stock, edit_stock, delete_stock or transfer_stock
\* leaves more StockHistory rows than it found.
MutationsAreLogged ==
    (Ok("add_stock") \/ Ok("edit_stock") \/ Ok("delete_stock") \/ Ok("transfer_stock")) =>
        Len(history) > Len(prev.history)

\* a row that no entry spoke of (it was imported) was deleted
UnloggedRowDeletedWitness ==
    /\ Ok("delete_stock")
    /\ \A i \in 1..Len(prev.history) : prev.history[i].stock_id # last.stock_id
    /\ Len(history) = Len(prev.history) + 1

\* C7, as claimed: every Stock row the last request created or removed has a
\* StockHistory row of that request.
RowCreationAndRemovalLogged ==
    pc = "idle" =>
        \A k \in (DOMAIN stocks \ DOMAIN prev.stocks) \cup (DOMAIN prev.stocks \ DOMAIN stocks) :
            \E i \in 1..Len(NewHistory) : NewHistory[i].stock_id = k

\* C8: delete_stock appends one 'deleted' entry with the id, the name and the
\* campus name the row had when the request arrived; the row is gone and
\* the entry is there.
DeleteKeepsSnapshot ==
    Ok("delete_stock") =>
        LET row == prev.stocks[last.stock_id]
        IN  /\ last.stock_id \notin DOMAIN stocks
            /\ Len(NewHistory) = 1
            /\ NewHistory[1].action = "deleted"
            /\ NewHistory[1].stock_id = last.stock_id
            /\ NewHistory[1].item_name = row.item_name
            /\ NewHistory[1].campus_name = prev.campuses[row.campus_id].name

\* a row that units had been transferred from was deleted, the row they
\* went to staying
DeleteAfterTransferWitness ==
    /\ Ok("delete_stock")
    /\ stocks # <<>>
    /\ history[Len(history)].campus_name = campuses[last.campus_id].name
    /\ \E i \in 1..Len(prev.history) :
          /\ prev.history[i].stock_id = last.stock_id
          /\ prev.history[i].action = "transferred_out"

\* C9: the StockHistory rows a request found are all there after it, unchanged
\* and in the same places; rows are only added after them.
HistoryAppendOnly ==
    /\ Len(prev.history) <= Len(history)
    /\ SubSeq(history, 1, Len(prev.history)) = prev.history

\* a row that has entries in the log was deleted, or a campus holding such rows
HistoryKeptWitness ==
    /\ Ok("delete_stock") \/ Ok("delete_campus")
    /\ \E i \in 1..Len(prev.history) :
          /\ prev.history[i].stock_id \in DOMAIN prev.stocks
          /\ prev.history[i].stock_id \notin DOMAIN stocks

\* C10: delete_campus by an admin removes the campus and the Stock rows whose
\* campus_id is that campus, and leaves the other campuses and rows as they were.
DeleteCampusCascade ==
    Ok("delete_campus") =>
        LET c == last.campus_id
            kept == {k \in DOMAIN prev.stocks : prev.stocks[k].campus_id # c}
        IN  /\ prev.users[last.actor] = "admin"
            /\ DOMAIN campuses = DOMAIN prev.campuses \ {c}
            /\ \A d \in DOMAIN campuses : campuses[d] = prev.campuses[d]
            /\ DOMAIN stocks = kept
            /\ \A k \in kept : stocks[k] = prev.stocks[k]

\* a campus with stock was deleted while another campus had stock too
DeleteCampusWitness ==
    /\ Ok("delete_campus")
    /\ \E k \in DOMAIN prev.stocks : prev.stocks[k].campus_id = last.campus_id
    /\ DOMAIN stocks # {}

\* the effects of a committed transfer: source, destination, the StockTransfer
\* row and the two StockHistory rows
TransferEffects ==
    LET src == last.stock_id
        dests == {k \in TouchedStocks \ {src} : stocks[k].campus_id = last.to_campus_id}
    IN  /\ stocks[src].quantity = prev.stocks[src].quantity - last.qty
        /\ Cardinality(dests) = 1
        /\ \A d \in dests : stocks[d].quantity = QuantityBefore(d) + last.qty
        /\ Len(transfers) = Len(prev.transfers) + 1
        /\ transfers[Len(transfers)].quantity_transferred = last.qty
        /\ Len(NewHistory) = 2
        /\ NewHistory[1].action = "transferred_out"
        /\ NewHistory[2].action = "transferred_in"

\* C5: what is committed of a transfer is all of it or nothing: nothing while
\* the request runs, nothing after it failed at any statement, everything
\* after it committed.
TransferAtomic ==
    last.op = "transfer_stock" =>
        /\ pc # "idle" => Tables = prev
        /\ (pc = "idle" /\ last.result # "ok") => Tables = prev
        /\ TransferOk => TransferEffects

\* a transfer failed after its session held the writes
TransferFailedWitness ==
    /\ pc = "idle"
    /\ last.op = "transfer_stock"
    /\ last.result = "error"
    /\ last.qty >= 1

\* C11: every Stock row's campus_id is the id of a Campus row.
StockBelongsToCampus ==
    \A k \in DOMAIN stocks : stocks[k].campus_id \in DOMAIN campuses

\* the last campus was deleted while it held stock, and no row is left behind
LastCampusDeletedWitness ==
    /\ Ok("delete_campus")
    /\ prev.stocks # <<>>
    /\ campuses = <<>>
    /\ stocks = <<>>

TransferRefused ==
    /\ pc = "idle"
    /\ last.op = "transfer_stock"
    /\ last.result \in {"not_found", "invalid_stock", "invalid_campus", "invalid_quantity"}

\* C12: a transfer is carried out only if, as the request found the tables,
\* the stock exists and is the named campus's, the destination campus exists
\* and is another one, and the quantity is at least 1; every other request is
\* refused and a refused request changes no table.
TransferPreconditions ==
    /\ TransferRefused => Tables = prev
    /\ TransferOk =>
          /\ last.stock_id \in DOMAIN prev.stocks
          /\ prev.stocks[last.stock_id].campus_id = last.campus_id
          /\ last.to_campus_id \in DOMAIN prev.campuses
          /\ last.to_campus_id # last.campus_id
          /\ last.qty >= 1

\* a transfer was refused for its quantity while there was stock to move
TransferRefusedWitness ==
    /\ TransferRefused
    /\ last.result = "invalid_quantity"
    /\ \E k \in DOMAIN stocks : stocks[k].quantity >= 1

\* C13: is_low_stock is true exactly when the quantity (0 if missing) is at
\* most the threshold (10 if missing), the boundary included.
LowStockInclusive ==
    pc = "read" =>
        LET q == IF last.quantity = <<>> THEN 0 ELSE last.quantity[1]
            t == IF last.low_stock_threshold = <<>> THEN 10 ELSE last.low_stock_threshold[1]
        IN  last.result = (q <= t)

\* a row without a threshold whose quantity is 10 was read as low
LowStockBoundaryWitness ==
    /\ pc = "read"
    /\ last.low_stock_threshold = <<>>
    /\ last.quantity = <<10>>
    /\ last.result = TRUE

\* row i of the uploaded file has an item_name and numbers that int() and
\* float() take
RowReadable(i) ==
    LET row == last.file[i]
    IN  /\ row.item_name # NaN
        /\ DOMAIN row.quantity # {"text"}
        /\ DOMAIN row.unit_price # {"text"}

RowTag(i) == IF last.file[i].asset_tag = NaN THEN None ELSE last.file[i].asset_tag.text

\* row i is one the import has to take: readable, and its asset_tag, if it has
\* one, neither in the table as the request found it nor on an earlier readable row
RowGood(i) ==
    /\ RowReadable(i)
    /\ RowTag(i) # None =>
          /\ \A k \in DOMAIN prev.stocks : prev.stocks[k].asset_tag # RowTag(i)
          /\ \A j \in 1..(i - 1) : RowReadable(j) => RowTag(j) # RowTag(i)

\* the ids of the rows the last request created
CreatedStocks == DOMAIN stocks \ DOMAIN prev.stocks

\* C14: of two rows of one file with the same asset_tag, unknown to the table,
\* the first becomes a Stock row and the second is skipped with an error for
\* its row; one Stock row has the tag afterwards.
SameTagTwiceImportsFirst ==
    (/\ Ok("upload_excel")
     /\ Len(last.file) = 2
     /\ RowReadable(1) /\ RowReadable(2)
     /\ RowTag(1) # None /\ RowTag(1) = RowTag(2)
     /\ \A k \in DOMAIN prev.stocks : prev.stocks[k].asset_tag # RowTag(1)) =>
        /\ Cardinality({k \in DOMAIN stocks : stocks[k].asset_tag = RowTag(1)}) = 1
        /\ \E k \in CreatedStocks :
              /\ stocks[k].asset_tag = RowTag(1)
              /\ stocks[k].item_name = last.file[1].item_name.text
        /\ \E e \in 1..Len(last.errors) : last.errors[e].row_num = 3
        /\ Cardinality(CreatedStocks) = 1

\* two different rows with one tag were uploaded and the first one's item was stored
SameTagTwiceWitness ==
    /\ Ok("upload_excel")
    /\ Len(last.file) = 2
    /\ last.file[1] # last.file[2]
    /\ RowReadable(1) /\ RowReadable(2)
    /\ RowTag(1) # None /\ RowTag(1) = RowTag(2)
    /\ \E k \in CreatedStocks : stocks[k].item_name = last.file[1].item_name.text

\* C15, as claimed: a row with an item_name and a quantity that is no number
\* becomes a Stock row with quantity 0.
UnparseableQuantityImportedAsZero ==
    Ok("upload_excel") =>
        \A i \in 1..Len(last.file) :
            (/\ last.file[i].item_name # NaN
             /\ DOMAIN last.file[i].quantity = {"text"}
             /\ DOMAIN last.file[i].unit_price # {"text"}
             /\ RowTag(i) = None) =>
                \E k \in CreatedStocks :
                    /\ stocks[k].item_name = last.file[i].item_name.text
                    /\ stocks[k].quantity = 0

\* C16: after an import commits, the rows it had to take are Stock rows, in
\* the file's order and all at once, whatever rows failed between them, and
\* every other row has an entry in the errors list.
FailingRowsDoNotStopImport ==
    Ok("upload_excel") =>
        LET good == {i \in 1..Len(last.file) : RowGood(i)}
        IN  /\ Cardinality(CreatedStocks) = Cardinality(good)
            /\ \A i \in good :
                  \E k \in CreatedStocks :
                      /\ stocks[k].item_name = last.file[i].item_name.text
                      /\ stocks[k].asset_tag = RowTag(i)
                      /\ stocks[k].campus_id = last.campus_id
            /\ \A k \in DOMAIN prev.stocks : k \in DOMAIN stocks /\ stocks[k] = prev.stocks[k]
            /\ \A i \in 1..Len(last.file) :
                  i \notin good <=> \E e \in 1..Len(last.errors) : last.errors[e].row_num = i + 1
            /\ Len(last.errors) = Len(last.file) - Cardinality(good)

\* a file whose first row failed and whose second row was imported
FailedThenImportedWitness ==
    /\ Ok("upload_excel")
    /\ Len(last.file) = 2
    /\ ~RowGood(1)
    /\ RowGood(2)
    /\ Cardinality(CreatedStocks) = 1

\* C17: no two Stock rows have the same asset_tag, rows without one aside.
AssetTagUnique ==
    \A j, k \in DOMAIN stocks :
        (j # k /\ stocks[j].asset_tag # None) => stocks[j].asset_tag # stocks[k].asset_tag

\* part of a tagged row was transferred into a row the transfer created
TaggedTransferWitness ==
    /\ TransferOk
    /\ stocks[last.stock_id].asset_tag # None
    /\ \E d \in CreatedStocks : stocks[d].campus_id = last.to_campus_id

\* C18: add_campus, edit_campus, delete_campus, register and upload_employees
\* asked for by a user who is not an admin leave the Campus, Stock and User
\* rows as they were.
OnlyAdminsManage ==
    (/\ pc = "idle"
     /\ last.op \in {"add_campus", "edit_campus", "delete_campus", "register", "upload_employees"}
     /\ prev.users[last.actor] # "admin") =>
        /\ campuses = prev.campuses
        /\ stocks = prev.stocks
        /\ users = prev.users

\* a staff user asked to delete a campus that holds stock
StaffDeleteWitness ==
    /\ pc = "idle"
    /\ last.op = "delete_campus"
    /\ users[last.actor] = "staff"
    /\ last.campus_id \in DOMAIN campuses
    /\ \E k \in DOMAIN stocks : stocks[k].campus_id = last.campus_id

\* the campuses, other than the one a request edits, that have the code the
\* request asks for, as it is stored
CodeTakenBy ==
    {c \in DOMAIN prev.campuses : c # last.campus_id /\ prev.campuses[c].code = Upper(last.code)}

\* C19, as claimed: an add_campus or edit_campus by an admin asking for a code
\* another campus has, and a register asking for a username that exists, are
\* answered as duplicates and change nothing; codes and usernames are unique.
DuplicatesReported ==
    /\ (/\ pc = "idle"
        /\ last.op \in {"add_campus", "edit_campus"}
        /\ prev.users[last.actor] = "admin"
        /\ CodeTakenBy # {}) =>
           /\ last.result = "duplicate"
           /\ Tables = prev
    /\ (/\ pc = "idle"
        /\ last.op = "register"
        /\ prev.users[last.actor] = "admin"
        /\ last.username \in DOMAIN prev.users) =>
           /\ last.result = "duplicate"
           /\ Tables = prev
    /\ \A c, d \in DOMAIN campuses : c # d => campuses[c].code # campuses[d].code

RaceCommitted == pc = "idle" /\ last.op = "transfer_stock" /\ "session" \in DOMAIN last

\* C20: a transfer that passed the quantity test on the row as its request
\* read it commits whatever was committed in between: the source is left at
\* the quantity read minus qty, and the destination still gains qty.
StaleReadIsWritten ==
    RaceCommitted =>
        LET src == last.stock_id
            dests == {k \in TouchedStocks \ {src} : stocks[k].campus_id = last.to_campus_id}
        IN  /\ last.qty <= last.read.quantity
            /\ stocks[src].quantity = last.read.quantity - last.qty
            /\ Cardinality(dests) = 1
            /\ \A d \in dests : stocks[d].quantity = QuantityBefore(d) + last.qty

\* two requests read the same row, both committed, and together they moved
\* more to the destination than the source ever held
RaceOverdrawWitness ==
    /\ RaceCommitted
    /\ \A r \in Sessions : sess[r].state = "committed"
    /\ \E r1, r2 \in Sessions :
          /\ r1 # r2
          /\ sess[r1].req.stock_id = sess[r2].req.stock_id
          /\ sess[r1].req.to_campus_id = sess[r2].req.to_campus_id
          /\ sess[r1].read = sess[r2].read
          /\ sess[r1].req.qty + sess[r2].req.qty > sess[r1].read.quantity
          /\ \E d \in DOMAIN stocks \ {sess[r1].req.stock_id} :
                /\ stocks[d].campus_id = sess[r1].req.to_campus_id
                /\ stocks[d].quantity = sess[r1].req.qty + sess[r2].req.qty
          /\ stocks[sess[r1].req.stock_id].quantity >= 0

\* C21: a successful transfer appends one StockTransfer row and two
\* StockHistory rows: 'transferred_out' on the source, from its quantity
\* before to its quantity after, and 'transferred_in' on the destination row,
\* from its quantity before (0 for a new row) to its quantity after.
TransferIsRecorded ==
    TransferOk =>
        LET src == last.stock_id
            dests == {k \in TouchedStocks \ {src} : stocks[k].campus_id = last.to_campus_id}
        IN  /\ Len(transfers) = Len(prev.transfers) + 1
            /\ SubSeq(transfers, 1, Len(prev.transfers)) = prev.transfers
            /\ transfers[Len(transfers)].stock_id = src
            /\ transfers[Len(transfers)].quantity_transferred = last.qty
            /\ transfers[Len(transfers)].from_campus_id = last.campus_id
            /\ transfers[Len(transfers)].to_campus_id = last.to_campus_id
            /\ Len(NewHistory) = 2
            /\ NewHistory[1].action = "transferred_out"
            /\ NewHistory[1].stock_id = src
            /\ NewHistory[1].old_value = ToString(prev.stocks[src].quantity)
            /\ NewHistory[1].new_value = ToString(stocks[src].quantity)
            /\ NewHistory[2].action = "transferred_in"
            /\ NewHistory[2].stock_id \in dests
            /\ NewHistory[2].old_value = ToString(QuantityBefore(NewHistory[2].stock_id))
            /\ NewHistory[2].new_value = ToString(stocks[NewHistory[2].stock_id].quantity)

\* a transfer into a row it created was logged with old value 0
TransferInFromZeroWitness ==
    /\ TransferOk
    /\ Len(NewHistory) = 2
    /\ NewHistory[2].stock_id \in CreatedStocks
    /\ NewHistory[2].old_value = "0"
    /\ NewHistory[1].old_value # NewHistory[1].new_value

(* --------------- transfers between rows of differing prices ------------ *)

\* sheets of untagged rows of one item and category, priced or with the
\* unit_price cell left empty
MergeUploadRows ==
    { [item_name |-> Text("Laptop"), category |-> Text("Laptop"), quantity |-> Num(MaxQty),
       unit_price |-> Num(5), asset_tag |-> NaN, condition |-> NaN],
      [item_name |-> Text("Laptop"), category |-> Text("Laptop"), quantity |-> Num(1),
       unit_price |-> NaN, asset_tag |-> NaN, condition |-> Text("Damaged")] }

UploadMergeRows ==
    \E actor \in Actors, c \in CampusIds, file \in UploadFilesOf(MergeUploadRows) :
        upload_excel(actor, c, file)

MergeNext ==
    \/ AddCampus
    \/ UploadMergeRows
    \/ TransferDone

SpecMerge == Init /\ [][MergeNext]_vars

\* the rows that matched the source's item_name and category at the
\* destination campus when the last transfer was received
MatchesBefore ==
    DestMatches(prev.stocks, prev.stocks[last.stock_id].item_name, last.to_campus_id,
                prev.stocks[last.stock_id].category)

\* C22: with no matching row at the destination, a successful transfer
\* creates exactly one row there: quantity = the transferred amount,
\* item_name, category, unit, unit_price, condition and low_stock_threshold
\* those of the source, total_value = transferred amount x unit_price; the
\* source keeps quantity - amount and the total_value of that quantity.
TransferCreatesCopy ==
    TransferOk /\ MatchesBefore = {} =>
        LET src == prev.stocks[last.stock_id]
        IN  /\ Cardinality(CreatedStocks) = 1
            /\ \A d \in CreatedStocks :
                  /\ stocks[d].campus_id = last.to_campus_id
                  /\ stocks[d].quantity = last.qty
                  /\ stocks[d].item_name = src.item_name
                  /\ stocks[d].category = src.category
                  /\ stocks[d].unit = src.unit
                  /\ stocks[d].unit_price = src.unit_price
                  /\ stocks[d].condition = src.condition
                  /\ stocks[d].low_stock_threshold = src.low_stock_threshold
                  /\ stocks[d].total_value = last.qty * src.unit_price
            /\ stocks[last.stock_id].quantity = src.quantity - last.qty
            /\ stocks[last.stock_id].total_value = (src.quantity - last.qty) * src.unit_price

\* one of two units of a priced row was moved to a campus that had no such
\* item
PartCopiedWitness ==
    /\ TransferOk
    /\ MatchesBefore = {}
    /\ CreatedStocks # {}
    /\ prev.stocks[last.stock_id].unit_price > 0
    /\ last.qty < prev.stocks[last.stock_id].quantity
    /\ stocks[last.stock_id].total_value > 0

\* C23: with a matching row at the destination, a successful transfer
\* creates no row: the number of rows is unchanged, the matching row's
\* quantity grows by the transferred amount and its total_value is its new
\* quantity times its own unit_price.
TransferMergesIntoMatch ==
    TransferOk /\ MatchesBefore # {} =>
        /\ DOMAIN stocks = DOMAIN prev.stocks
        /\ \E d \in MatchesBefore :
              /\ stocks[d].quantity = prev.stocks[d].quantity + last.qty
              /\ stocks[d].total_value = stocks[d].quantity * prev.stocks[d].unit_price
              /\ stocks[d] = [prev.stocks[d] EXCEPT !.quantity = stocks[d].quantity,
                                                    !.total_value = stocks[d].total_value]

\* the merged row is priced differently from the source
MergedAtOwnPriceWitness ==
    /\ TransferOk
    /\ MatchesBefore # {}
    /\ \E d \in MatchesBefore :
          /\ stocks[d].quantity > prev.stocks[d].quantity
          /\ prev.stocks[d].quantity > 0
          /\ stocks[d].unit_price # stocks[last.stock_id].unit_price
          /\ stocks[d].total_value # stocks[d].quantity * stocks[last.stock_id].unit_price

NoDuplicateStockRows ==
    \A a, b \in DOMAIN stocks :
        (/\ stocks[a].item_name = stocks[b].item_name
         /\ stocks[a].category = stocks[b].category
         /\ stocks[a].campus_id = stocks[b].campus_id) => a = b

\* C26: every StockTransfer row has quantity_transferred > 0 and
\* from_campus_id # to_campus_id, and no request modifies or removes a row
\* that exists: the rows before the request are the first rows after it.
TransfersValidAndKept ==
    /\ \A i \in DOMAIN transfers :
          /\ transfers[i].quantity_transferred > 0
          /\ transfers[i].from_campus_id # transfers[i].to_campus_id
    /\ Len(prev.transfers) <= Len(transfers)
    /\ SubSeq(transfers, 1, Len(prev.transfers)) = prev.transfers

\* the campus a transfer came from was deleted, with the transferred row
TransferOutlivesCampusWitness ==
    /\ Ok("delete_campus")
    /\ transfers # <<>>
    /\ transfers[1].from_campus_id \notin DOMAIN campuses
    /\ transfers[1].stock_id \notin DOMAIN stocks

\* C28: when the uploaded file cannot be read, upload_excel gives up the
\* whole import: no Stock row is added, changed or removed, nothing else is
\* written, and the request is answered with the error.
UnreadableFileImportsNothing ==
    pc = "idle" /\ last.op = "upload_excel" /\ last.file = NoWorkbook =>
        /\ stocks = prev.stocks
        /\ history = prev.history
        /\ last.result = "error"

\* an unreadable file was uploaded to a campus that holds imported rows
UnreadableFileWitness ==
    /\ pc = "idle"
    /\ last.op = "upload_excel"
    /\ last.file = NoWorkbook
    /\ last.result = "error"
    /\ \E k \in DOMAIN stocks : stocks[k].campus_id = last.campus_id

(* ------------------------------ dashboard ----------------------------- *)

\* .limit(20) of the low_stock_items query
DashboardLimit == 20

\* how many rows more than DashboardLimit the tables of this section hold
MaxOver == 2

\* the k-element subsets of S
RECURSIVE KSubsets(_, _)
KSubsets(S, k) ==
    IF k = 0 THEN {{}}
    ELSE IF k = Cardinality(S) THEN {S}
    ELSE UNION {{Y \cup {x} : x \in {z \in S : \A y \in Y : z > y}} : Y \in KSubsets(S, k - 1)}

\* low_stock_count: over the campuses, the rows s with s.is_low_stock
LowStockCount(table, camps) ==
    Cardinality({k \in DOMAIN table :
                    /\ table[k].campus_id \in DOMAIN camps
                    /\ is_low_stock(Some(table[k].quantity), Some(table[k].low_stock_threshold))})

\* the rows of Stock.query.filter(Stock.quantity <= Stock.low_stock_threshold)
LowStockFilter(table) == {k \in DOMAIN table : table[k].quantity <= table[k].low_stock_threshold}

\* the first n of the rows in ascending order of key: the rows before the
\* n-th place, and n minus their number of the rows that tie for it
FirstRows(rows, n, key) ==
    LET cut == CHOOSE k \in rows :
                   /\ Cardinality({x \in rows : key[x] < key[k]}) < n
                   /\ Cardinality({x \in rows : key[x] <= key[k]}) >= n
        ahead == {x \in rows : key[x] < key[cut]}
        ties == {x \in rows : key[x] = key[cut]}
    IN  {ahead \cup T : T \in KSubsets(ties, n - Cardinality(ahead))}

\* .order_by(Stock.quantity.asc()).limit(20).all(): the first DashboardLimit
\* of the filtered rows by quantity; rows of equal quantity come in an order
\* the query leaves open, so each way of cutting among them is a result
LowStockItems(table) ==
    LET low == LowStockFilter(table)
    IN  IF Cardinality(low) <= DashboardLimit THEN {low}
        ELSE FirstRows(low, DashboardLimit, [k \in low |-> table[k].quantity])

\* the values the handler passes to the template
dashboard(actor) ==
    /\ Received
    /\ \E items \in LowStockItems(stocks) :
          last' = [low_stock_count |-> LowStockCount(stocks, campuses), low_stock_items |-> items]
                  @@ Request("dashboard", "ok", actor, 0, 0, 0, 0)
    /\ UNCHANGED <<users, campuses, stocks, history, transfers, pc, sess>>

\* the row upload_excel stores in a campus for a sheet row with the given
\* quantity; its low_stock_threshold is the column default
DashRow(quantity, campus_id) ==
    StockOfRow([item_name |-> Text("Laptop"), category |-> NaN, quantity |-> Num(quantity),
                unit_price |-> Num(5), asset_tag |-> NaN, condition |-> NaN], campus_id)

\* a row whose low_stock_threshold is another value than the default: the
\* column holds what line 245 or 296 assigns from the form's field
DashRowAt(quantity, threshold, campus_id) ==
    [DashRow(quantity, campus_id) EXCEPT !.low_stock_threshold = threshold]

\* a table of a rows below the threshold 10, three at each of the quantities
\* 2, 3, 4, ... in turn, then b rows at it (10 of 10) and c rows above it
\* (11 of 10), all in campus 1, then d rows in campus 2 that hold 1 at a
\* threshold of 1
DashTable(a, b, c, d) ==
    [i \in 1..(a + b + c + d) |->
        IF i <= a THEN DashRow(((i - 1) \div 3) + 2, 1)
        ELSE IF i <= a + b THEN DashRow(DefaultThreshold, 1)
        ELSE IF i <= a + b + c THEN DashRow(DefaultThreshold + 1, 1)
        ELSE DashRowAt(1, 1, 2)]

\* an application that is down, or one that started and has two campuses
\* and a table of stocks: up to MaxOver more rows below the threshold 10
\* than the dashboard lists, up to MaxOver at it, and up to as many rows at
\* a threshold of 1 as the dashboard lists
InitDash ==
    \E imported \in ImportOutcomes :
        IF ~imported THEN create_app(FALSE)
        ELSE /\ users = [u \in {"admin"} |-> "admin"]
             /\ history = <<>>
             /\ transfers = <<>>
             /\ pc = "idle"
             /\ sess = NoSession
             /\ last = NoRequest
             /\ requests = 0
             /\ campuses = Insert(Insert(<<>>, 1, [name |-> "Main", code |-> "HQ"]),
                                  2, [name |-> "Lab", code |-> "LAB"])
             /\ \E a \in 0..(DashboardLimit + MaxOver), b \in 0..MaxOver, c \in 0..1,
                   d \in 0..DashboardLimit :
                   stocks = DashTable(a, b, c, d)
             /\ prev = Tables

Dashboard == \E actor \in Actors : dashboard(actor)

DashNext == Dashboard

SpecDash == InitDash /\ [][DashNext]_vars

\* the rows of the table that are low
LowRows == {k \in DOMAIN stocks :
               is_low_stock(Some(stocks[k].quantity), Some(stocks[k].low_stock_threshold))}

\* row y is lower than row x relative to its threshold, as a difference
LowerByDifference(y, x) ==
    stocks[y].quantity - stocks[y].low_stock_threshold
        < stocks[x].quantity - stocks[x].low_stock_threshold

\* row y is lower than row x relative to its threshold, as a ratio
LowerByRatio(y, x) ==
    stocks[y].quantity * stocks[x].low_stock_threshold
        < stocks[x].quantity * stocks[y].low_stock_threshold

TransferTouchesTwoRows ==
    TransferOk =>
        /\ DOMAIN prev.stocks \subseteq DOMAIN stocks
        /\ last.stock_id \in DOMAIN stocks
        /\ stocks[last.stock_id].quantity = prev.stocks[last.stock_id].quantity - last.qty
        /\ Cardinality(TouchedStocks) <= 2
        /\ Cardinality(TouchedStocks \ {last.stock_id}) <= 1
        /\ \A k \in TouchedStocks \ {last.stock_id} : stocks[k].campus_id = last.to_campus_id
        /\ \A k \in DOMAIN prev.stocks :
              stocks[k] = [prev.stocks[k] EXCEPT !.quantity = stocks[k].quantity,
                                                 !.total_value = stocks[k].total_value]
        /\ campuses = prev.campuses
        /\ users = prev.users

\* all of a row was transferred next to a third row, which stayed as it was
EmptiedSourceWitness ==
    /\ TransferOk
    /\ stocks[last.stock_id].quantity = 0
    /\ prev.stocks[last.stock_id].quantity > 0
    /\ Cardinality(TouchedStocks) = 2
    /\ Cardinality(DOMAIN stocks) = 3

====
